---- MODULE Spec2Model ----
(***************************************************************************)
(* Catalyst backend: the copies of the POST /api/generate-and-evaluate     *)
(* server kept in src/server.js and src/unnamed/part_000.                  *)
(*                                                                         *)
(* Text is a sequence of UTF-16 code units, each written as a one-unit     *)
(* string; an error message is a sequence of message parts.  The scorers   *)
(* evaluatePrompt (two policies) and evaluateWithCLIP (two weightings) are *)
(* operators; the request handlers are state machines with one action per  *)
(* stretch of code between two awaits.                                     *)
(***************************************************************************)
EXTENDS Integers, Sequences, FiniteSets, TLC

VARIABLES
    \* --- one scorer call and a second call made with the same labItem and
    \* --- the same random draw (SpecScorer)
    scFn,        \* which scorer ran: "none", "A", "B", "clip4", "clip5"
    scPrompt,    \* its prompt argument
    scLabItem,   \* its labItem argument
    scRnd,       \* floor(Math.random() * 10) drawn by the call
    scClip,      \* the parsed body the vision service answered with
    scResult,    \* the { score, explanation } it returned
    sc2Fn,       \* which scorer the second call ran: "none", "A"
    sc2Prompt,   \* prompt of the second call
    sc2Result,   \* result of the second call
    \* --- one server process handling requests (Spec)
    copy,        \* which copy of the server is deployed
    hfKey,       \* HF_API_KEY is set in the environment
    pc,          \* where the handler of the request in flight stands
    body,        \* req.body of the request in flight
    imageBase64, \* the handler's local imageBase64
    imageUrl,    \* the handler's local imageUrl
    evaluation,  \* the handler's local evaluation
    calls,       \* external calls made for the request in flight
    upstream,    \* what each external service answered for this request
    responses    \* the HTTP responses sent for the request in flight

scorerVars == <<scFn, scPrompt, scLabItem, scRnd, scClip, scResult, sc2Fn, sc2Prompt, sc2Result>>
serverVars == <<copy, hfKey, pc, body, imageBase64, imageUrl, evaluation, calls, upstream,
                responses>>
vars == <<scFn, scPrompt, scLabItem, scRnd, scClip, scResult, sc2Fn, sc2Prompt, sc2Result,
          copy, hfKey, pc, body, imageBase64, imageUrl, evaluation, calls, upstream,
          responses>>

(***************************************************************************)
(* Bounds of the model.                                                    *)
(***************************************************************************)
\* A prompt is at most this many fragments long.
MaxFrags == 2
\* Length of the filler fragment (just past the first length threshold).
FillerLen == 51
\* Confidences of the vision service are multiples of 1/ConfScale.
ConfScale == 10

Min(a, b) == IF a < b THEN a ELSE b
Max(a, b) == IF a > b THEN a ELSE b

\* The empty text; also what a text-valued variable holds before it is set.
NoText == <<>>

(***************************************************************************)
(* Text.                                                                   *)
(***************************************************************************)
RECURSIVE Concat(_)
\* The concatenation of a sequence of texts.
Concat(ss) == IF ss = <<>> THEN <<>> ELSE Head(ss) \o Concat(Tail(ss))

\* String.prototype.toLowerCase on one code unit: capitals map to their
\* small letter, U+0130 (capital I with dot above) maps to the two units
\* "i" U+0307, everything else is unchanged.
LowerUnit(c) ==
    CASE c = "B" -> <<"b">>
      [] c = "T" -> <<"t">>
      [] c = "L" -> <<"l">>
      [] c = "U+0130" -> <<"i", "U+0307">>
      [] OTHER -> <<c>>

RECURSIVE LowerRange(_, _, _)
\* The lower-cased units s[lo..hi], joined (by halves, to keep the
\* evaluation shallow).
LowerRange(s, lo, hi) ==
    IF lo > hi THEN <<>>
    ELSE IF lo = hi THEN LowerUnit(s[lo])
    ELSE LET mid == (lo + hi) \div 2
         IN  LowerRange(s, lo, mid) \o LowerRange(s, mid + 1, hi)

\* String.prototype.toLowerCase.
ToLowerCase(s) == LowerRange(s, 1, Len(s))

\* String.prototype.includes: t occurs in s as a contiguous run.  The empty
\* text occurs in every text.
Includes(s, t) ==
    \E i \in 0..(Len(s) - Len(t)) :
        \A k \in 1..Len(t) : s[i + k] = t[k]

(***************************************************************************)
(* The keyword lists of the two evaluatePrompt copies.                     *)
(***************************************************************************)
\* A plausible slip: 'liquid', a keyword of the other copy's list, in this one.
scienceKeywordsA_withLiquid ==
    << <<"l","a","b","o","r","a","t","o","r","y">>,
       <<"l","a","b">>,
       <<"s","c","i","e","n","c","e">>,
       <<"s","c","i","e","n","t","i","f","i","c">>,
       <<"e","x","p","e","r","i","m","e","n","t">>,
       <<"r","e","s","e","a","r","c","h">>,
       <<"c","h","e","m","i","s","t","r","y">>,
       <<"b","e","a","k","e","r">>,
       <<"f","l","a","s","k">>,
       <<"t","e","s","t">>,
       <<"e","q","u","i","p","m","e","n","t">>,
       <<"l","i","q","u","i","d">> >>

scienceKeywordsA ==
    << <<"l","a","b","o","r","a","t","o","r","y">>,
       <<"l","a","b">>,
       <<"s","c","i","e","n","c","e">>,
       <<"s","c","i","e","n","t","i","f","i","c">>,
       <<"e","x","p","e","r","i","m","e","n","t">>,
       <<"r","e","s","e","a","r","c","h">>,
       <<"c","h","e","m","i","s","t","r","y">>,
       <<"b","e","a","k","e","r">>,
       <<"f","l","a","s","k">>,
       <<"t","e","s","t">>,
       <<"e","q","u","i","p","m","e","n","t">> >>

scienceKeywordsB ==
    scienceKeywordsA \o
    << <<"g","l","a","s","s">>,
       <<"l","i","q","u","i","d">>,
       <<"c","o","n","t","a","i","n","e","r">>,
       <<"v","e","s","s","e","l">> >>

\* scienceKeywords.filter(word => promptLower.includes(word)).length
scienceCount(keywords, promptLower) ==
    Cardinality({i \in 1..Len(keywords) : Includes(promptLower, keywords[i])})

\* Math.floor(Math.random() * 10): the ten values the draw can take.
RandomDraws == 0..9

(***************************************************************************)
(* evaluatePrompt, "BULLETPROOF VERSION" (Variant A: mention rewarded).    *)
(***************************************************************************)
\* A plausible slip: the cap of the keyword bonus left out.
keywordBonusA_noCap(count) == count * 5

\* Math.min(20, scienceCount * 5)
keywordBonusA(count) == Min(20, count * 5)

\* The score before the random variation: base, mention bonus, keyword bonus.
\* A plausible slip: the mention test on the texts as given, not lower-cased.
detScoreA_caseSensitive(prompt, labItem) ==
    LET promptLower == ToLowerCase(prompt)
        mentionsLabItem == Includes(prompt, labItem)
    IN  50 + (IF mentionsLabItem THEN 30 ELSE 0)
           + keywordBonusA(scienceCount(scienceKeywordsA, promptLower))

\* A plausible slip: a mention bonus of 20, the size of the keyword cap.
detScoreA_mention20(prompt, labItem) ==
    LET promptLower == ToLowerCase(prompt)
        labItemLower == ToLowerCase(labItem)
        mentionsLabItem == Includes(promptLower, labItemLower)
    IN  50 + (IF mentionsLabItem THEN 20 ELSE 0)
           + keywordBonusA(scienceCount(scienceKeywordsA, promptLower))

detScoreA(prompt, labItem) ==
    LET promptLower == ToLowerCase(prompt)
        labItemLower == ToLowerCase(labItem)
        mentionsLabItem == Includes(promptLower, labItemLower)
    IN  50 + (IF mentionsLabItem THEN 30 ELSE 0)
           + keywordBonusA(scienceCount(scienceKeywordsA, promptLower))

\* score += Math.floor(Math.random() * 10) - 5
rawScoreA(prompt, labItem, rnd) == detScoreA(prompt, labItem) + (rnd - 5)

\* A plausible slip: the upper bound of the clamp left out.
clampA_noUpper(score) == Max(0, score)

\* Math.max(0, Math.min(100, score))
clampA(score) == Max(0, Min(100, score))

\* A plausible slip: the strong band from above 70 only.
explanationA_above70(score, labItem) ==
    IF score > 70 THEN [band |-> "excellent", labItem |-> labItem]
    ELSE IF score >= 50 THEN [band |-> "good", labItem |-> labItem]
    ELSE [band |-> "artistic", labItem |-> labItem]

explanationA(score, labItem) ==
    IF score >= 70 THEN [band |-> "excellent", labItem |-> labItem]
    ELSE IF score >= 50 THEN [band |-> "good", labItem |-> labItem]
    ELSE [band |-> "artistic", labItem |-> labItem]

evaluatePromptA(prompt, labItem, rnd) ==
    LET score == clampA(rawScoreA(prompt, labItem, rnd))
    IN  [score |-> score, explanation |-> explanationA(score, labItem)]

(***************************************************************************)
(* evaluatePrompt, "BULLETPROOF v2 (with penalty)" (Variant B).            *)
(***************************************************************************)
\* promptLower.includes(labItemLower)
usedLabItemWord(prompt, labItem) ==
    Includes(ToLowerCase(prompt), ToLowerCase(labItem))

\* Math.min(20, scienceCount * 4)
keywordBonusB(count) == Min(20, count * 4)

\* A plausible slip: the length bonus from the lower-cased prompt's length.
rawScoreB_lowerLength(prompt, rnd) ==
    LET promptLower == ToLowerCase(prompt)
    IN  50 + keywordBonusB(scienceCount(scienceKeywordsB, promptLower))
           + (IF Len(promptLower) > 50 THEN 10 ELSE 0)
           + (IF Len(promptLower) > 100 THEN 10 ELSE 0)
           + (rnd - 5)

rawScoreB(prompt, rnd) ==
    LET promptLower == ToLowerCase(prompt)
    IN  50 + keywordBonusB(scienceCount(scienceKeywordsB, promptLower))
           + (IF Len(prompt) > 50 THEN 10 ELSE 0)
           + (IF Len(prompt) > 100 THEN 10 ELSE 0)
           + (rnd - 5)

\* Math.max(30, Math.min(100, score))
clampB(score) == Max(30, Min(100, score))

explanationB(score) ==
    IF score >= 80 THEN [band |-> "excellent"]
    ELSE IF score >= 60 THEN [band |-> "good"]
    ELSE [band |-> "creative"]

\* A plausible slip: the forbidden-word test on the texts as given.
evaluatePromptB_caseSensitive(prompt, labItem, rnd) ==
    IF Includes(prompt, labItem)
    THEN [score |-> 0, explanation |-> [band |-> "forbidden", labItem |-> labItem]]
    ELSE LET score == clampB(rawScoreB(prompt, rnd))
         IN  [score |-> score, explanation |-> explanationB(score)]

\* A plausible slip: the forbidden-word test negated.
evaluatePromptB_negated(prompt, labItem, rnd) ==
    IF ~usedLabItemWord(prompt, labItem)
    THEN [score |-> 0, explanation |-> [band |-> "forbidden", labItem |-> labItem]]
    ELSE LET score == clampB(rawScoreB(prompt, rnd))
         IN  [score |-> score, explanation |-> explanationB(score)]

evaluatePromptB(prompt, labItem, rnd) ==
    IF usedLabItemWord(prompt, labItem)
    THEN [score |-> 0, explanation |-> [band |-> "forbidden", labItem |-> labItem]]
    ELSE LET score == clampB(rawScoreB(prompt, rnd))
         IN  [score |-> score, explanation |-> explanationB(score)]

(***************************************************************************)
(* evaluateWithCLIP: the score derived from the vision service's answer.   *)
(* A confidence c stands for c / ConfScale.  The parsed answer is a record *)
(* [isArray, entries]: an array of {label, score} entries, or some other   *)
(* JSON object (isArray = FALSE), whose numeric properties are undefined.  *)
(***************************************************************************)
NotArray == [isArray |-> FALSE, entries |-> <<>>]
ArrayOf(entries) == [isArray |-> TRUE, entries |-> entries]

\* Math.round(num / den) for den > 0: the nearest integer, halves upwards.
MathRound(num, den) == (2 * num + den) \div (2 * den)

\* result[i]?.score || 0   (i counts from 0, as in the source)
scoreAt(result, i) ==
    IF result.isArray /\ i + 1 <= Len(result.entries)
    THEN result.entries[i + 1].score
    ELSE 0

\* The weight of the unrelated confidence, in tenths: 0.3 and 0.5.
UnrelatedWeight4 == 3
UnrelatedWeight5 == 5

explanationCLIP(score, pct, labItem) ==
    IF score >= 70 THEN [band |-> "high", labItem |-> labItem, pct |-> pct]
    ELSE IF score >= 40 THEN [band |-> "moderate", labItem |-> labItem, pct |-> pct]
    ELSE [band |-> "not-visible", labItem |-> labItem, pct |-> pct]

\* The copies of server.js ("FINAL FIXED VERSION v2" and "FIXED VERSION"):
\* four candidate labels, result[0] against 0.3 x result[3].
parseCLIP4(result, labItem) ==
    IF result.isArray /\ Len(result.entries) > 0
    THEN LET labItemScore == scoreAt(result, 0)
             unrelatedScore == scoreAt(result, 3)
             score == Max(0, Min(100,
                        MathRound(100 * labItemScore - 10 * UnrelatedWeight4 * unrelatedScore,
                                  ConfScale)))
         IN  [score |-> score,
              explanation |-> explanationCLIP(score, MathRound(100 * labItemScore, ConfScale), labItem)]
    ELSE [score |-> 50,
          explanation |-> [band |-> "inconclusive", labItem |-> labItem]]

\* The upload copy (part_000): five candidate labels, the average of
\* result[0..2] against 0.5 x result[4]; no Array.isArray test.
parseCLIP5(result, labItem) ==
    LET labItemScore1 == scoreAt(result, 0)
        labItemScore2 == scoreAt(result, 1)
        labItemScore3 == scoreAt(result, 2)
        unrelatedScore == scoreAt(result, 4)
        sum == labItemScore1 + labItemScore2 + labItemScore3
        finalScore == Max(0, Min(100,
                        MathRound(100 * sum - 3 * 10 * UnrelatedWeight5 * unrelatedScore,
                                  3 * ConfScale)))
    IN  [score |-> finalScore,
         explanation |-> explanationCLIP(finalScore, MathRound(100 * sum, 3 * ConfScale), labItem)]

\* candidate_labels of the two evaluateWithCLIP requests, in request order.
\* "X" stands for the labItem spliced into the phrase.
candidateLabels4 ==
    << "a laboratory X", "a realistic X used in scientific research",
       "scientific equipment X", "something unrelated to laboratory equipment" >>

candidateLabels5 ==
    << "a laboratory X", "a realistic X used in scientific research",
       "a scientific instrument X", "laboratory equipment", "something unrelated to X" >>

(***************************************************************************)
(* Inputs.                                                                 *)
(***************************************************************************)
FragKit == <<"l","a","b"," ","s","c","i","e","n","c","e"," ","t","e","s","t"," ","f","l","a","s","k"," ">>
FragBeaker == <<"B","e","a","k","e","r"," ","g","l","a","s","s">>
FragTube == <<"t","u","b","e"," ">>
FragFiller == [i \in 1..FillerLen |-> "x"]
Fragments == {FragKit, FragBeaker, FragTube, FragFiller}

\* "a laboratory beaker with blue liquid"
ExamplePrompt == <<"a"," ","l","a","b","o","r","a","t","o","r","y"," ","b","e","a","k","e","r"," ","w","i","t","h"," ","b","l","u","e"," ","l","i","q","u","i","d">>
\* A text of n letters x.
Xs(n) == [i \in 1..n |-> "x"]
\* Prompts at the two length thresholds of Variant B, one of them ending in
\* U+0130, which lower-cases to two units; and a prompt of five keywords of
\* Variant B's list.
SpecialPrompts ==
    {ExamplePrompt, Xs(50), Xs(49) \o <<"U+0130">>, Xs(100), Xs(101),
     FragKit \o <<"g","l","a","s","s">>}

\* Every text of at most MaxFrags fragments, the empty text included, and
\* the special prompts.
Prompts ==
    {Concat(fs) : fs \in UNION {[1..n -> Fragments] : n \in 0..MaxFrags}}
        \cup SpecialPrompts

LabItems == { <<>>, <<"b","e","a","k","e","r">>, <<"T","u","b","e">> }

RECURSIVE RankedScores(_, _, _)
\* The sequences of n confidences, none above top, in descending order,
\* that add up to total.
RankedScores(n, top, total) ==
    IF n = 0 THEN (IF total = 0 THEN {<<>>} ELSE {})
    ELSE UNION {{<<c>> \o rest : rest \in RankedScores(n - 1, c, total - c)} :
                c \in 0..Min(top, total)}

\* The answers of the vision service to a request with the given candidate
\* labels: every label once, ranked by descending confidence, the
\* confidences adding up to 1.
RankedAnswers(labels) ==
    LET n == Len(labels)
        orders == {o \in [1..n -> 1..n] : \A i, j \in 1..n : i # j => o[i] # o[j]}
    IN  {ArrayOf([i \in 1..n |-> [label |-> labels[o[i]], score |-> sc[i]]]) :
            o \in orders, sc \in RankedScores(n, ConfScale, ConfScale)}

ClipAnswers4 == RankedAnswers(candidateLabels4) \cup {NotArray, ArrayOf(<<>>)}
ClipAnswers5 == RankedAnswers(candidateLabels5) \cup {NotArray, ArrayOf(<<>>)}

(***************************************************************************)
(* The scorers called on their own (SpecScorer).                           *)
(***************************************************************************)
NoResult == [score |-> 0, explanation |-> [band |-> "none"]]
NoAnswer == NotArray

serverIdle ==
    /\ copy = "none"
    /\ hfKey = FALSE
    /\ pc = "idle"
    /\ body = <<>>
    /\ imageBase64 = <<>>
    /\ imageUrl = <<>>
    /\ evaluation = <<>>
    /\ calls = <<>>
    /\ upstream = <<>>
    /\ responses = <<>>

InitScorer ==
    /\ scFn = "none"
    /\ scPrompt = NoText
    /\ scLabItem = NoText
    /\ scRnd = 0
    /\ scClip = NoAnswer
    /\ scResult = NoResult
    /\ sc2Fn = "none"
    /\ sc2Prompt = NoText
    /\ sc2Result = NoResult
    /\ serverIdle

\* One call of Variant A's evaluatePrompt.
ScoreA(prompt, labItem, rnd) ==
    /\ scFn = "none"
    /\ scFn' = "A"
    /\ scPrompt' = prompt
    /\ scLabItem' = labItem
    /\ scRnd' = rnd
    /\ scResult' = evaluatePromptA(prompt, labItem, rnd)
    /\ UNCHANGED <<scClip, sc2Fn, sc2Prompt, sc2Result>>
    /\ UNCHANGED serverVars

\* One call of Variant B's evaluatePrompt.
ScoreB(prompt, labItem, rnd) ==
    /\ scFn = "none"
    /\ scFn' = "B"
    /\ scPrompt' = prompt
    /\ scLabItem' = labItem
    /\ scRnd' = rnd
    /\ scResult' = evaluatePromptB(prompt, labItem, rnd)
    /\ UNCHANGED <<scClip, sc2Fn, sc2Prompt, sc2Result>>
    /\ UNCHANGED serverVars

\* A second call of Variant A's evaluatePrompt, for another prompt, with
\* the labItem and the random draw of the first.
ScoreAgainA(prompt) ==
    /\ scFn = "A"
    /\ sc2Fn = "none"
    /\ sc2Fn' = "A"
    /\ sc2Prompt' = prompt
    /\ sc2Result' = evaluatePromptA(prompt, scLabItem, scRnd)
    /\ UNCHANGED <<scFn, scPrompt, scLabItem, scRnd, scClip, scResult>>
    /\ UNCHANGED serverVars

\* The scoring part of evaluateWithCLIP, server.js copies.
ScoreCLIP4(result, labItem) ==
    /\ scFn = "none"
    /\ scFn' = "clip4"
    /\ scClip' = result
    /\ scLabItem' = labItem
    /\ scResult' = parseCLIP4(result, labItem)
    /\ UNCHANGED <<scPrompt, scRnd, sc2Fn, sc2Prompt, sc2Result>>
    /\ UNCHANGED serverVars

\* The scoring part of evaluateWithCLIP, upload copy.
ScoreCLIP5(result, labItem) ==
    /\ scFn = "none"
    /\ scFn' = "clip5"
    /\ scClip' = result
    /\ scLabItem' = labItem
    /\ scResult' = parseCLIP5(result, labItem)
    /\ UNCHANGED <<scPrompt, scRnd, sc2Fn, sc2Prompt, sc2Result>>
    /\ UNCHANGED serverVars

\* The guard of each call is tested before its inputs are enumerated.
NextScorer ==
    \/ scFn = "none" /\ \E p \in Prompts, l \in LabItems, r \in RandomDraws : ScoreA(p, l, r)
    \/ scFn = "none" /\ \E p \in Prompts, l \in LabItems, r \in RandomDraws : ScoreB(p, l, r)
    \/ scFn = "A" /\ sc2Fn = "none" /\ \E p \in Prompts : ScoreAgainA(p)
    \/ scFn = "none" /\ \E c \in ClipAnswers4, l \in LabItems : ScoreCLIP4(c, l)
    \/ scFn = "none" /\ \E c \in ClipAnswers5, l \in LabItems : ScoreCLIP5(c, l)

SpecScorer == InitScorer /\ [][NextScorer]_vars

(***************************************************************************)
(* The server copies.  Each is a whole program: one of them is deployed.   *)
(*   "final"       server.js, "FINAL FIXED VERSION v2"   (CLIP, 4 labels)  *)
(*   "penalty"     server.js, "BULLETPROOF v2 (with penalty)" (Variant B)  *)
(*   "fixed"       server.js, "FIXED VERSION"            (CLIP, 4 labels)  *)
(*   "bulletproof" server.js, "BULLETPROOF VERSION"      (Variant A)       *)
(*   "upload"      part_000, Cloudinary upload           (CLIP, 5 labels)  *)
(***************************************************************************)
Copies == {"final", "penalty", "fixed", "bulletproof", "upload"}
PromptCopies == {"penalty", "bulletproof"}
LoadingCheckCopies == {"penalty", "bulletproof"}

\* A field of req.body: left out of the JSON, or a text.
Absent == [defined |-> FALSE, text |-> NoText]
Given(t) == [defined |-> TRUE, text |-> t]
\* !field : undefined and the empty text are falsy.
Falsy(f) == ~f.defined \/ f.text = NoText

\* A message is a sequence of parts; a number is spliced in as its digits.
StatusText(status) == ToString(status)

\* The message of the Error generateImage throws on a response that is
\* not OK, per copy.
generateErrorMessage(c, status, errorText) ==
    CASE c = "final" -> <<"Image generation failed: ", StatusText(status), " - ">> \o errorText
      [] c = "penalty" -> <<"Image generation failed: ", StatusText(status)>>
      [] c = "fixed" -> <<"Hugging Face error: ", StatusText(status), " - ">> \o errorText
      [] c = "bulletproof" -> <<"Image generation failed: ", StatusText(status)>>
      [] c = "upload" -> <<"Hugging Face error: ", StatusText(status), " - ">> \o errorText

\* The message of the Error evaluateWithCLIP throws on a response that is
\* not OK (the same in the three copies that call CLIP).
clipErrorMessage(status, errorText) == <<"CLIP evaluation failed: ", StatusText(status)>>

missingFieldsMessage(c) ==
    IF c \in {"penalty", "bulletproof"}
    THEN <<"Missing required fields">>
    ELSE <<"Missing required fields: prompt, labItem, or teamName">>

loadingMessage(c) ==
    IF c = "bulletproof"
    THEN <<"Model is loading, please wait 30 seconds and try again">>
    ELSE <<"Model loading, wait 30 seconds">>

\* error.message || '<default>'
messageOrDefault(c, message) ==
    IF message # <<>> THEN message
    ELSE CASE c = "penalty" -> <<"Server error">>
           [] c = "bulletproof" -> <<"Server error occurred">>
           [] OTHER -> <<"An error occurred">>

\* Buffer.from(imageBuffer).toString('base64')
Base64(bytes) == [encoding |-> "base64", of |-> bytes]
NoImage == [encoding |-> "none", of |-> <<>>]

\* `data:image/png;base64,${imageBase64}`, a hosted URL, or undefined.
DataUrl(b64) == [kind |-> "data:image/png;base64,", payload |-> b64]
HostedUrl(bytes) == [kind |-> "secure_url", payload |-> Base64(bytes)]
UndefinedUrl == [kind |-> "undefined", payload |-> NoImage]

\* res.status(status).json({ success: false, error })
Failure(status, error) ==
    [status |-> status, success |-> FALSE, error |-> error,
     imageUrl |-> UndefinedUrl, score |-> 0, explanation |-> [band |-> "none"]]

\* res.json({ success: true, imageUrl, score, explanation, ... })
Success(url, result) ==
    [status |-> 200, success |-> TRUE, error |-> <<>>,
     imageUrl |-> url, score |-> result.score, explanation |-> result.explanation]

(***************************************************************************)
(* What the outside can do.                                                *)
(***************************************************************************)
\* Requests: each field absent, empty or a text.
RequestPrompts == {FragTube, FragKit \o FragBeaker}
RequestLabItems == LabItems \ {NoText}
RequestTeams == { <<"T","e","a","m","1">> }
Bodies ==
    [prompt : {Absent, Given(NoText)} \cup {Given(t) : t \in RequestPrompts},
     labItem : {Absent, Given(NoText)} \cup {Given(t) : t \in RequestLabItems},
     teamName : {Absent, Given(NoText)} \cup {Given(t) : t \in RequestTeams}]
NoBody == [prompt |-> Absent, labItem |-> Absent, teamName |-> Absent]

Images == { <<137, 80>>, <<255, 216>> }
UpstreamStatuses == {500, 503}
LoadingText == <<"Model", "is", "currently", "loading">>
UpstreamTexts == { LoadingText, <<"Internal", "Server", "Error">> }
\* Messages of the errors fetch itself rejects with (no response at all).
RejectMessages == { <<"socket", "hang", "up">>, <<>> }

\* An answer of an external service: a response that is OK, a response
\* that is not, or no response (the call rejects or its body cannot be
\* parsed).  "none": the service was not called.
Answer(kind, status, text, image, url, clip) ==
    [kind |-> kind, status |-> status, text |-> text, image |-> image,
     url |-> url, clip |-> clip]
NoCall == Answer("none", 0, <<>>, <<>>, FALSE, NoAnswer)
Rejections == {Answer("rejected", 0, m, <<>>, FALSE, NoAnswer) : m \in RejectMessages}
NotOkAnswers ==
    {Answer("notOk", st, t, <<>>, FALSE, NoAnswer) : st \in UpstreamStatuses, t \in UpstreamTexts}

GenerateAnswers ==
    {Answer("ok", 200, <<>>, i, FALSE, NoAnswer) : i \in Images}
        \cup NotOkAnswers \cup Rejections

\* Cloudinary: a JSON body with secure_url, a JSON body without it (an error
\* answer), or no parsable answer.  uploadToCloudinary never looks at
\* response.ok.
UploadAnswers ==
    {Answer("ok", 200, <<>>, <<>>, TRUE, NoAnswer),
     Answer("notOk", 401, <<"Upload", "preset", "not", "found">>, <<>>, FALSE, NoAnswer)}
        \cup Rejections

ClipAnswersOf(c) == IF c = "upload" THEN ClipAnswers5 ELSE ClipAnswers4
ClipResponses(c) ==
    {Answer("ok", 200, <<>>, <<>>, FALSE, a) : a \in ClipAnswersOf(c)}
        \cup NotOkAnswers \cup Rejections

(***************************************************************************)
(* The handler of POST /api/generate-and-evaluate.                         *)
(***************************************************************************)
NoCalls == [generate |-> 0, upload |-> 0, clip |-> 0]
NoUpstream == [generate |-> NoCall, upload |-> NoCall, clip |-> NoCall]

Init ==
    /\ copy \in Copies
    /\ hfKey \in BOOLEAN
    /\ pc = "idle"
    /\ body = NoBody
    /\ imageBase64 = NoImage
    /\ imageUrl = UndefinedUrl
    /\ evaluation = NoResult
    /\ calls = NoCalls
    /\ upstream = NoUpstream
    /\ responses = <<>>
    /\ scFn = "none"
    /\ scPrompt = NoText
    /\ scLabItem = NoText
    /\ scRnd = 0
    /\ scClip = NoAnswer
    /\ scResult = NoResult
    /\ sc2Fn = "none"
    /\ sc2Prompt = NoText
    /\ sc2Result = NoResult

\* A plausible slip: teamName left out of the check.
missingFields_noTeamName(b) == Falsy(b.prompt) \/ Falsy(b.labItem)

\* !prompt || !labItem || !teamName
missingFields(b) == Falsy(b.prompt) \/ Falsy(b.labItem) \/ Falsy(b.teamName)

\* A plausible slip: the 400 answer without its return, so that the handler
\* goes on to generateImage.
Receive_noReturn(b) ==
    /\ pc = "idle"
    /\ body' = b
    /\ IF missingFields(b)
       THEN /\ responses' = Append(responses, Failure(400, missingFieldsMessage(copy)))
            /\ calls' = [calls EXCEPT !.generate = @ + 1]
            /\ pc' = "generating"
       ELSE IF copy = "bulletproof" /\ ~hfKey
       THEN /\ responses' = Append(responses, Failure(500, <<"Backend not configured properly">>))
            /\ pc' = "done"
            /\ calls' = calls
       ELSE /\ calls' = [calls EXCEPT !.generate = @ + 1]
            /\ pc' = "generating"
            /\ responses' = responses
    /\ UNCHANGED <<copy, hfKey, imageBase64, imageUrl, evaluation, upstream>>
    /\ UNCHANGED scorerVars

\* The request arrives; the handler runs up to its first await: it tests
\* the fields (and, in the "bulletproof" copy, HF_API_KEY), then issues the
\* fetch of generateImage.
Receive(b) ==
    /\ pc = "idle"
    /\ body' = b
    /\ IF missingFields(b)
       THEN /\ responses' = Append(responses, Failure(400, missingFieldsMessage(copy)))
            /\ pc' = "done"
            /\ calls' = calls
       ELSE IF copy = "bulletproof" /\ ~hfKey
       THEN /\ responses' = Append(responses, Failure(500, <<"Backend not configured properly">>))
            /\ pc' = "done"
            /\ calls' = calls
       ELSE /\ calls' = [calls EXCEPT !.generate = @ + 1]
            /\ pc' = "generating"
            /\ responses' = responses
    /\ UNCHANGED <<copy, hfKey, imageBase64, imageUrl, evaluation, upstream>>
    /\ UNCHANGED scorerVars

\* What the handler answers when generateImage threw an Error with this
\* message: the copies with the loading check answer 503 when the message
\* includes 'loading'; everything else reaches the outer catch.
generateFailureResponse(c, message) ==
    IF c \in LoadingCheckCopies /\ Includes(message, <<"loading">>)
    THEN Failure(503, loadingMessage(c))
    ELSE Failure(500, messageOrDefault(c, message))

\* evaluatePrompt of the deployed copy.
evaluatePrompt(c, prompt, labItem, rnd) ==
    IF c = "penalty" THEN evaluatePromptB(prompt, labItem, rnd)
    ELSE evaluatePromptA(prompt, labItem, rnd)

\* A plausible change: a failed generation is tried again.
generateFailed_retry(message) ==
    /\ calls' = [calls EXCEPT !.generate = @ + 1]
    /\ UNCHANGED <<pc, responses, imageBase64, imageUrl, evaluation>>

\* generateImage threw: the handler's catch blocks answer.
generateFailed(message) ==
    /\ responses' = Append(responses, generateFailureResponse(copy, message))
    /\ pc' = "done"
    /\ UNCHANGED <<imageBase64, imageUrl, evaluation, calls>>

\* generateImage returned the image: the copies that score the prompt
\* answer at once, the upload copy issues the upload, the others the CLIP
\* fetch.
generateSucceeded(image, rnd) ==
    /\ imageBase64' = Base64(image)
    /\ IF copy \in PromptCopies
       THEN /\ imageUrl' = DataUrl(Base64(image))
            /\ evaluation' = evaluatePrompt(copy, body.prompt.text, body.labItem.text, rnd)
            /\ responses' = Append(responses, Success(imageUrl', evaluation'))
            /\ pc' = "done"
            /\ calls' = calls
       ELSE IF copy = "upload"
       THEN /\ imageUrl' = imageUrl
            /\ evaluation' = evaluation
            /\ calls' = [calls EXCEPT !.upload = @ + 1]
            /\ pc' = "uploading"
            /\ responses' = responses
       ELSE /\ imageUrl' = DataUrl(Base64(image))
            /\ evaluation' = evaluation
            /\ calls' = [calls EXCEPT !.clip = @ + 1]
            /\ pc' = "evaluating"
            /\ responses' = responses

\* The fetch of generateImage settles and the handler runs on to its next
\* await or to its response.
GenerateReturns(a, rnd) ==
    /\ pc = "generating"
    /\ upstream' = [upstream EXCEPT !.generate = a]
    /\ IF a.kind = "notOk" THEN generateFailed(generateErrorMessage(copy, a.status, a.text))
       ELSE IF a.kind = "rejected" THEN generateFailed(a.text)
       ELSE generateSucceeded(a.image, rnd)
    /\ UNCHANGED <<copy, hfKey, body>>
    /\ UNCHANGED scorerVars

\* imageUrl after the try/catch around uploadToCloudinary: result.secure_url
\* when the body parsed (undefined when it has no such field), the data URL
\* when the call threw.
urlAfterUpload(a, b64) ==
    IF a.kind = "rejected" THEN DataUrl(b64)
    ELSE IF a.url THEN HostedUrl(b64.of)
    ELSE UndefinedUrl

\* The upload settles ("upload" copy); the CLIP fetch is issued.
UploadReturns(a) ==
    /\ pc = "uploading"
    /\ upstream' = [upstream EXCEPT !.upload = a]
    /\ imageUrl' = urlAfterUpload(a, imageBase64)
    /\ calls' = [calls EXCEPT !.clip = @ + 1]
    /\ pc' = "evaluating"
    /\ UNCHANGED <<copy, hfKey, body, imageBase64, evaluation, responses>>
    /\ UNCHANGED scorerVars

\* The scoring part of evaluateWithCLIP of the deployed copy.
parseCLIP(c, result, labItem) ==
    IF c = "upload" THEN parseCLIP5(result, labItem) ELSE parseCLIP4(result, labItem)

\* The CLIP fetch settles; the handler answers.
ClipReturns(a) ==
    /\ pc = "evaluating"
    /\ upstream' = [upstream EXCEPT !.clip = a]
    /\ evaluation' = IF a.kind = "ok" THEN parseCLIP(copy, a.clip, body.labItem.text)
                      ELSE evaluation
    /\ responses' = Append(responses,
          IF a.kind = "ok"
          THEN Success(imageUrl, evaluation')
          ELSE Failure(500, messageOrDefault(copy,
                    IF a.kind = "notOk" THEN clipErrorMessage(a.status, a.text) ELSE a.text)))
    /\ pc' = "done"
    /\ UNCHANGED <<copy, hfKey, body, imageBase64, imageUrl, calls>>
    /\ UNCHANGED scorerVars

\* The request is over; the server waits for the next one.
Finish ==
    /\ pc = "done"
    /\ pc' = "idle"
    /\ body' = NoBody
    /\ imageBase64' = NoImage
    /\ imageUrl' = UndefinedUrl
    /\ evaluation' = NoResult
    /\ calls' = NoCalls
    /\ upstream' = NoUpstream
    /\ responses' = <<>>
    /\ UNCHANGED <<copy, hfKey>>
    /\ UNCHANGED scorerVars

Next ==
    \/ pc = "idle" /\ \E b \in Bodies : Receive(b)
    \/ pc = "generating" /\ \E a \in GenerateAnswers, rnd \in RandomDraws : GenerateReturns(a, rnd)
    \/ pc = "uploading" /\ \E a \in UploadAnswers : UploadReturns(a)
    \/ pc = "evaluating" /\ \E a \in ClipResponses(copy) : ClipReturns(a)
    \/ Finish

Spec == Init /\ [][Next]_vars

(***************************************************************************)
(* Properties of the scorers, under SpecScorer.                             *)
(***************************************************************************)
\* prompt.toLowerCase().includes(labItem.toLowerCase()), for the formulas.
Mentions(prompt, labItem) == Includes(ToLowerCase(prompt), ToLowerCase(labItem))

\* The keywords of Variant A's list that occur in the lower-cased prompt.
MatchedA(prompt) ==
    LET promptLower == ToLowerCase(prompt)
    IN  {i \in 1..Len(scienceKeywordsA) : Includes(promptLower, scienceKeywordsA[i])}

\* C1: Variant B returns score 0 and the forbidden-word explanation whenever
\* the lower-cased prompt contains the lower-cased labItem, whatever the
\* keywords matched, the prompt's length and the random draw.
C1_ForbiddenWordForcesZero ==
    (scFn = "B" /\ Mentions(scPrompt, scLabItem))
        => /\ scResult.score = 0
           /\ scResult.explanation = [band |-> "forbidden", labItem |-> scLabItem]

\* C1 witness: a long prompt naming the item in another letter case, with
\* keywords matched, scored 0.
C1_Witness ==
    /\ scFn = "B"
    /\ Mentions(scPrompt, scLabItem)
    /\ ~Includes(scPrompt, scLabItem)
    /\ Len(scPrompt) > 50
    /\ scienceCount(scienceKeywordsB, ToLowerCase(scPrompt)) >= 2
    /\ scResult.score = 0

\* C2 as stated: every score of Variant B lies in [30, 100].
C2_AllScoresInClamp == scFn = "B" => scResult.score \in 30..100

\* C2 amended: every score of Variant B for a prompt that does not contain
\* the labItem (case-insensitively) lies in [30, 100].
C2_UnpenalisedScoresInClamp ==
    (scFn = "B" /\ ~Mentions(scPrompt, scLabItem)) => scResult.score \in 30..100

\* C2 witness: a prompt without the item, with keywords and a length bonus.
C2_Witness ==
    /\ scFn = "B"
    /\ ~Mentions(scPrompt, scLabItem)
    /\ Len(scPrompt) > 50
    /\ scResult.score > 70

\* C3: the score of every result of every scorer is an integer in [0, 100].
C3_ScoreInRange ==
    /\ scFn # "none" => scResult.score \in 0..100
    /\ sc2Fn # "none" => sc2Result.score \in 0..100

\* C3 witness: a call of Variant A whose unclamped score is above 100, so
\* that the clamp is what keeps the score in range.
C3_Witness ==
    /\ scFn = "A"
    /\ rawScoreA(scPrompt, scLabItem, scRnd) > 100
    /\ scResult.score = 100

\* C4: Variant A, two prompts matching the same keywords, the first containing
\* the labItem and the second not: the first's deterministic component is
\* greater by 30 and, with the same random draw, so is its returned score.
C4_MentionRaisesScore ==
    (/\ scFn = "A" /\ sc2Fn = "A"
     /\ Mentions(scPrompt, scLabItem)
     /\ ~Mentions(sc2Prompt, scLabItem)
     /\ MatchedA(scPrompt) = MatchedA(sc2Prompt))
        => /\ detScoreA(scPrompt, scLabItem) = detScoreA(sc2Prompt, scLabItem) + 30
           /\ scResult.score > sc2Result.score

\* C4 witness: such a pair in which the first score is cut down by the clamp.
C4_Witness ==
    /\ scFn = "A" /\ sc2Fn = "A"
    /\ Mentions(scPrompt, scLabItem)
    /\ ~Mentions(sc2Prompt, scLabItem)
    /\ MatchedA(scPrompt) = MatchedA(sc2Prompt)
    /\ MatchedA(scPrompt) # {}
    /\ rawScoreA(scPrompt, scLabItem, scRnd) > 100
    /\ scResult.score = 100

\* The confidence the answer gives to a label (0 when the label is missing).
ConfidenceOf(result, label) ==
    IF \E i \in 1..Len(result.entries) : result.entries[i].label = label
    THEN (CHOOSE e \in {result.entries[i] : i \in 1..Len(result.entries)} : e.label = label).score
    ELSE 0

\* C10 as stated: for a ranked answer naming every candidate label, the
\* score is the target-item confidence (one of the three target phrases;
\* their average in the upload copy) minus the weight times the confidence
\* of the "something unrelated" label, in percent, rounded, clamped.
C10_ScoreFromLabelledConfidences ==
    /\ (scFn = "clip4" /\ Len(scClip.entries) = 4)
          => \E t \in 1..3 :
                scResult.score =
                    Max(0, Min(100, MathRound(
                        100 * ConfidenceOf(scClip, candidateLabels4[t])
                          - 10 * UnrelatedWeight4 * ConfidenceOf(scClip, candidateLabels4[4]),
                        ConfScale)))
    /\ (scFn = "clip5" /\ Len(scClip.entries) = 5)
          => scResult.score =
                Max(0, Min(100, MathRound(
                    100 * (ConfidenceOf(scClip, candidateLabels5[1])
                           + ConfidenceOf(scClip, candidateLabels5[2])
                           + ConfidenceOf(scClip, candidateLabels5[3]))
                      - 3 * 10 * UnrelatedWeight5 * ConfidenceOf(scClip, candidateLabels5[5]),
                    3 * ConfScale)))

(***************************************************************************)
(* Properties of the request handlers, under Spec.                         *)
(***************************************************************************)
\* The one response of a finished request.
Answered == pc = "done" /\ Len(responses) = 1

\* C5 as stated: in the copies with the loading check, a generation response
\* that is not OK and whose body says the model is loading is answered 503
\* with the retry message.
C5_LoadingAnswered503 ==
    (/\ pc = "done"
     /\ copy \in LoadingCheckCopies
     /\ upstream.generate.kind = "notOk"
     /\ Includes(upstream.generate.text, <<"loading">>))
        => /\ Len(responses) = 1
           /\ responses[1].status = 503
           /\ responses[1].error = loadingMessage(copy)

\* C6 as stated: in the upload copy a success response never carries an
\* undefined imageUrl, and carries the inline data URL of the generated
\* image whenever the upload threw or was answered without a secure_url.
C6_UploadFailureFallsBackInline ==
    (copy = "upload" /\ Answered /\ responses[1].success)
        => /\ responses[1].imageUrl.kind # "undefined"
           /\ (upstream.upload.kind \in {"rejected", "notOk"}
                  => responses[1].imageUrl = DataUrl(imageBase64))

\* The message carries the status code and the error text of the answer.
Surfaces(message, answer) ==
    /\ Includes(message, <<StatusText(answer.status)>>)
    /\ Includes(message, answer.text)

\* C7 as stated: in every copy, when generation or CLIP evaluation gets a
\* response that is not OK, the error of the failure response carries the
\* upstream status code and the upstream error text.
C7_UpstreamFailureSurfaced ==
    /\ (pc = "done" /\ upstream.generate.kind = "notOk")
          => /\ Len(responses) = 1
             /\ ~responses[1].success
             /\ Surfaces(responses[1].error, upstream.generate)
    /\ (pc = "done" /\ upstream.clip.kind = "notOk")
          => /\ Len(responses) = 1
             /\ ~responses[1].success
             /\ Surfaces(responses[1].error, upstream.clip)

\* C8: in every copy a request with prompt, labItem or teamName absent or
\* empty is answered 400 with success false, and no external service is
\* called for it.
C8_MissingInputRejectedFirst ==
    (pc # "idle" /\ (Falsy(body.prompt) \/ Falsy(body.labItem) \/ Falsy(body.teamName)))
        => /\ pc = "done"
           /\ Len(responses) = 1
           /\ responses[1].status = 400
           /\ ~responses[1].success
           /\ calls = NoCalls
           /\ upstream = NoUpstream

\* C8 witness: only teamName is missing (sent as the empty text), answered 400.
C8_Witness ==
    /\ pc = "done"
    /\ ~Falsy(body.prompt) /\ ~Falsy(body.labItem)
    /\ body.teamName = Given(NoText)
    /\ Len(responses) = 1
    /\ responses[1].status = 400
    /\ calls = NoCalls

\* C9: within one request each external service is called at most once; a
\* failed generation or evaluation is followed by the failure response with
\* no further call, and an upload that threw by the inline data URL and the
\* one CLIP call.
C9_NoRetry ==
    /\ calls.generate <= 1 /\ calls.upload <= 1 /\ calls.clip <= 1
    /\ upstream.generate.kind \in {"notOk", "rejected"}
          => /\ pc = "done" /\ Len(responses) = 1 /\ ~responses[1].success
             /\ calls = [generate |-> 1, upload |-> 0, clip |-> 0]
    /\ upstream.clip.kind \in {"notOk", "rejected"}
          => /\ pc = "done" /\ Len(responses) = 1 /\ ~responses[1].success
             /\ calls.generate = 1 /\ calls.clip = 1
    /\ upstream.upload.kind \in {"notOk", "rejected"}
          => /\ pc \in {"evaluating", "done"}
             /\ calls = [generate |-> 1, upload |-> 1, clip |-> 1]
    /\ upstream.upload.kind = "rejected" => imageUrl = DataUrl(imageBase64)

\* C9 witness: a request of the upload copy whose upload threw and whose
\* CLIP call was then answered with an error: three calls, one response.
C9_Witness ==
    /\ pc = "done"
    /\ upstream.upload.kind = "rejected"
    /\ upstream.clip.kind = "notOk"
    /\ calls = [generate |-> 1, upload |-> 1, clip |-> 1]
    /\ Len(responses) = 1
    /\ responses[1].status = 500

(***************************************************************************)
(* Further properties of the scorers, under SpecScorer.                    *)
(***************************************************************************)
\* C11 as stated: for the empty prompt Variant A applies neither the mention
\* bonus nor the keyword bonus, whatever the labItem (the empty one
\* included): the score is 50 plus the jitter.
C11_EmptyPromptNoBonus ==
    (scFn = "A" /\ scPrompt = NoText) => scResult.score = 50 + (scRnd - 5)

\* The keywords of Variant B's list that occur in the lower-cased prompt.
MatchedB(prompt) ==
    LET promptLower == ToLowerCase(prompt)
    IN  {i \in 1..Len(scienceKeywordsB) : Includes(promptLower, scienceKeywordsB[i])}

\* The keyword bonus the claim gives for n distinct matched keywords.
SaturatedA(n) == IF n >= 4 THEN 20 ELSE 5 * n
SaturatedB(n) == IF n >= 5 THEN 20 ELSE 4 * n

\* C12: in each variant the keyword bonus is decided by the number of
\* distinct keywords of the list found in the lower-cased prompt, never
\* decreases as that number grows, and is 20 from 4 matches (Variant A, 5
\* each) or 5 matches (Variant B, 4 each), never more; and it is that bonus
\* which enters the score of the call just made.
C12_KeywordBonusSaturates ==
    /\ \A n \in 0..Len(scienceKeywordsA) :
          /\ keywordBonusA(n) = SaturatedA(n)
          /\ keywordBonusA(n) <= 20
          /\ n > 0 => keywordBonusA(n - 1) <= keywordBonusA(n)
    /\ \A n \in 0..Len(scienceKeywordsB) :
          /\ keywordBonusB(n) = SaturatedB(n)
          /\ keywordBonusB(n) <= 20
          /\ n > 0 => keywordBonusB(n - 1) <= keywordBonusB(n)
    /\ (scFn = "A" /\ sc2Fn = "none") =>
          LET n == Cardinality(MatchedA(scPrompt))
          IN  scResult.score
                = clampA(50 + (IF Mentions(scPrompt, scLabItem) THEN 30 ELSE 0)
                            + SaturatedA(n) + (scRnd - 5))
    /\ (scFn = "B" /\ ~Mentions(scPrompt, scLabItem)) =>
          LET n == Cardinality(MatchedB(scPrompt))
          IN  scResult.score
                = clampB(50 + SaturatedB(n)
                            + (IF Len(scPrompt) > 50 THEN 10 ELSE 0)
                            + (IF Len(scPrompt) > 100 THEN 10 ELSE 0)
                            + (scRnd - 5))

\* C12 witness: two calls of Variant A, four keywords matched in the first
\* and five in the second, both with the bonus 20.
C12_Witness ==
    /\ scFn = "A" /\ sc2Fn = "A"
    /\ Cardinality(MatchedA(scPrompt)) = 4
    /\ Cardinality(MatchedA(sc2Prompt)) = 5
    /\ detScoreA(scPrompt, scLabItem) = detScoreA(sc2Prompt, scLabItem)

\* C13: in Variant A the band of the explanation is decided by the returned
\* score at the thresholds 70 and 50: 70 and above is the 'Excellent prompt'
\* text, 50 to 69 the 'Good prompt' text, below 50 the artistic text.
C13_BandByReturnedScore ==
    scFn = "A" =>
        /\ scResult.explanation.band \in {"excellent", "good", "artistic"}
        /\ scResult.explanation.band = "excellent" <=> scResult.score >= 70
        /\ scResult.explanation.band = "good"
              <=> (scResult.score >= 50 /\ scResult.score < 70)
        /\ scResult.explanation.band = "artistic" <=> scResult.score < 50
        /\ scResult.score = 70 => scResult.explanation.band = "excellent"
        /\ scResult.score = 50 => scResult.explanation.band = "good"

\* C13 witness: two calls of Variant A, the first returning exactly 70 with
\* the strong text, the second exactly 50 with the moderate text.
C13_Witness ==
    /\ scFn = "A" /\ sc2Fn = "A"
    /\ scResult.score = 70 /\ scResult.explanation.band = "excellent"
    /\ sc2Result.score = 50 /\ sc2Result.explanation.band = "good"

\* C14: for the prompt "a laboratory beaker with blue liquid" and the labItem
\* "beaker", Variant A adds the mention bonus 30 and the keyword bonus 15,
\* the score before the random variation is 95, and for every draw the
\* returned score is at most 100 with the 'Excellent prompt' text.
C14_ExampleScores95 ==
    (scFn = "A" /\ scPrompt = ExamplePrompt /\ scLabItem = <<"b","e","a","k","e","r">>) =>
        LET promptLower == ToLowerCase(scPrompt)
            bonus == keywordBonusA(scienceCount(scienceKeywordsA, promptLower))
        IN  /\ Includes(promptLower, ToLowerCase(scLabItem))
            /\ bonus = 15
            /\ detScoreA(scPrompt, scLabItem) = 50 + 30 + 15
            /\ detScoreA(scPrompt, scLabItem) = 95
            /\ scResult.score = 95 + (scRnd - 5)
            /\ scResult.score <= 100
            /\ scResult.explanation.band = "excellent"

\* C14 witness: the example scored with the largest draw.
C14_Witness ==
    /\ scFn = "A" /\ scPrompt = ExamplePrompt
    /\ scLabItem = <<"b","e","a","k","e","r">>
    /\ scRnd = 9 /\ scResult.score = 99

\* The length bonus the claim gives for a prompt of n code units.
LengthBonus(n) == IF n <= 50 THEN 0 ELSE IF n <= 100 THEN 10 ELSE 20

\* C16: when the lower-cased prompt does not contain the lower-cased labItem,
\* Variant B returns 50 + min(20, 4 x matched keywords) + L + jitter, kept
\* within 30..100, with the jitter in -5..4 and L from the length of the
\* prompt as given: 0 up to 50, 10 from 51 to 100, 20 from 101.
C16_UnpenalisedScoreB ==
    (scFn = "B" /\ ~Mentions(scPrompt, scLabItem)) =>
        LET jitter == scRnd - 5
            sum == 50 + Min(20, 4 * Cardinality(MatchedB(scPrompt)))
                      + LengthBonus(Len(scPrompt)) + jitter
        IN  /\ jitter \in -5..4
            /\ scResult.score
                  = (IF sum < 30 THEN 30 ELSE IF sum > 100 THEN 100 ELSE sum)

\* C16 witness: a prompt of 50 code units whose lower-cased form has 51,
\* scored by Variant B without the length bonus.
C16_Witness ==
    /\ scFn = "B" /\ ~Mentions(scPrompt, scLabItem)
    /\ Len(scPrompt) = 50 /\ Len(ToLowerCase(scPrompt)) = 51
    /\ scResult.score = 50 + (scRnd - 5)

\* C18: in Variant A the mention of the labItem alone decides between two
\* disjoint ranges: with it the score is in 75..100 and the text is the
\* 'Excellent prompt' one, without it the score is in 45..74. So the score
\* is never 0, and the artistic text (score below 50) is returned only
\* without a mention, without a matched keyword and with a negative jitter.
C18_MentionSplitsRanges ==
    scFn = "A" =>
        LET mentioned == Mentions(scPrompt, scLabItem)
        IN  /\ mentioned =>
                  /\ scResult.score \in 75..100
                  /\ scResult.explanation.band = "excellent"
            /\ ~mentioned => scResult.score \in 45..74
            /\ scResult.score > 0
            /\ (scResult.score < 50 \/ scResult.explanation.band = "artistic") =>
                  /\ ~mentioned
                  /\ MatchedA(scPrompt) = {}
                  /\ scRnd - 5 < 0

\* C18 witness: two calls of Variant A with one labItem and one draw; the
\* first prompt mentions the labItem and matches no keyword, the second
\* matches four keywords without the mention, and still scores lower.
C18_Witness ==
    /\ scFn = "A" /\ sc2Fn = "A"
    /\ Mentions(scPrompt, scLabItem) /\ MatchedA(scPrompt) = {}
    /\ ~Mentions(sc2Prompt, scLabItem) /\ Cardinality(MatchedA(sc2Prompt)) >= 4
    /\ scResult.score = 84 /\ sc2Result.score = 74

(***************************************************************************)
(* A further property of the handler, under Spec.                          *)
(***************************************************************************)
\* C17: in every copy a request gets at most one response, and exactly one
\* once the handler has run to its end; evaluatePrompt or the CLIP call is
\* started only after generateImage returned an image for this request; and
\* a success response is sent only after generation and evaluation are both
\* over, carrying the evaluation's score and explanation.
C17_OneResponseAfterPipeline ==
    /\ Len(responses) <= 1
    /\ pc = "done" => Len(responses) = 1
    /\ pc \in {"generating", "uploading", "evaluating"} => responses = <<>>
    /\ (calls.clip > 0 \/ evaluation # NoResult) =>
          /\ upstream.generate.kind = "ok"
          /\ imageBase64 = Base64(upstream.generate.image)
    /\ \A i \in 1..Len(responses) :
          responses[i].success =>
              /\ upstream.generate.kind = "ok"
              /\ evaluation # NoResult
              /\ responses[i].score = evaluation.score
              /\ responses[i].explanation = evaluation.explanation
              /\ copy \notin PromptCopies =>
                    (calls.clip = 1 /\ upstream.clip.kind = "ok")

\* C17 witness: the upload copy has answered success after its three calls,
\* each made once.
C17_Witness ==
    /\ pc = "done" /\ copy = "upload"
    /\ Len(responses) = 1 /\ responses[1].success
    /\ calls = [generate |-> 1, upload |-> 1, clip |-> 1]
    /\ upstream.clip.kind = "ok"

====
